---- MODULE Spec2Model ----
(***************************************************************************)
(* Stock tracker API (FastAPI + SQLAlchemy + yfinance + matplotlib).       *)
(*                                                                         *)
(* State: the `stocks` table, the wall clock that supplies the timestamp   *)
(* default, the store sessions handed out by get_db, pyplot's global       *)
(* figure registry, and the requests in flight (FastAPI runs the `def`     *)
(* endpoints of main.py on a thread pool, so requests interleave at every  *)
(* call that touches shared state).                                        *)
(*                                                                         *)
(* Numbers.  A price is an integer number of thousandths of a currency     *)
(* unit (1004 is 1.004).  round(x, 2) is modelled on exact rationals as    *)
(* rounding to the nearest hundredth, ties to even; a rounded value is an  *)
(* integer number of hundredths (100 is 1.00).                             *)
(* A ticker is a sequence of one-character strings.                        *)
(***************************************************************************)
EXTENDS Integers, Sequences, FiniteSets, TLC

VARIABLES store, now, sessions, figs, figCount, req

vars == <<store, now, sessions, figs, figCount, req>>

----------------------------------------------------------------------------
(* Bounds of the model *)

MaxReq == 2
MaxSessions == 3
MaxStore == 2
MaxTime == 1
MaxInitRows == 3
MaxSeqRequests == 1

(* Program constants: Query(20, ge=2, le=1000) *)
NDefault == 20
NMin == 2
NMax == 1000

Reqs == 1..MaxReq

TickerInputs == { <<"a", "b">>, <<"A", "B">>, <<"b", "b">> }

PriceInputs == {0, 1006, 2004}

(* What yf.Ticker(t).history(period="1d") can hand back: the Close column, *)
(* oldest row first; the empty frame is "no data".                         *)
ProviderFrames == { <<>>, <<1006>>, <<0, 2004>> }

NInputs == {NMin, NMin + 1, NMax}

----------------------------------------------------------------------------
(* Pure helpers *)

Min2(a, b) == IF a <= b THEN a ELSE b

Last(s) == s[Len(s)]

RECURSIVE SumSeq(_)
SumSeq(s) == IF s = <<>> THEN 0 ELSE s[1] + SumSeq(Tail(s))

MinSeq(s) == CHOOSE x \in {s[i] : i \in 1..Len(s)} : \A j \in 1..Len(s) : x <= s[j]

MaxSeq(s) == CHOOSE x \in {s[i] : i \in 1..Len(s)} : \A j \in 1..Len(s) : x >= s[j]

Reversed(s) == [i \in 1..Len(s) |-> s[Len(s) + 1 - i]]

(* str.upper(), character by character *)
UpperChar(c) == CASE c = "a" -> "A" [] c = "b" -> "B" [] OTHER -> c

UpperVerbatim(t) == t

Upper(t) == [i \in 1..Len(t) |-> UpperChar(t[i])]

(* The nearest integer to num/den (den > 0), ties to even. *)
RoundDiv(num, den) ==
    LET q == num \div den
        r == num - q * den
    IN  IF 2 * r < den THEN q
        ELSE IF 2 * r > den THEN q + 1
        ELSE IF q % 2 = 0 THEN q ELSE q + 1

Round2Truncate(num, den) == (num * 100) \div den

(* round(num/den, 2), in hundredths *)
Round2(num, den) == RoundDiv(num * 100, den)

(* round(price, 2) of a price held in thousandths *)
RoundPrice(p) == Round2(p, 1000)

----------------------------------------------------------------------------
(* crud.py *)

add_stock_upsert(rows, ticker, price, ts) ==
    IF \E i \in 1..Len(rows) : rows[i].ticker = Upper(ticker)
    THEN LET i == CHOOSE k \in 1..Len(rows) : rows[k].ticker = Upper(ticker)
         IN  [rows EXCEPT ![i] = [@ EXCEPT !.price = price + 1, !.timestamp = ts]]
    ELSE Append(rows, [id |-> Len(rows) + 1, ticker |-> Upper(ticker),
                       price |-> price, timestamp |-> ts])

(* Stock(ticker=ticker.upper(), price=price); add; commit; refresh.  The   *)
(* id is the autoincrement primary key, the timestamp the column default   *)
(* datetime.utcnow.                                                        *)
add_stock(rows, ticker, price, ts) ==
    Append(rows, [id |-> Len(rows) + 1, ticker |-> Upper(ticker),
                  price |-> price, timestamp |-> ts])

(* db.query(Stock).filter(Stock.ticker == ticker.upper()).all() *)
get_stocks(rows, ticker) ==
    SelectSeq(rows, LAMBDA s : s.ticker = Upper(ticker))

OrderByTimestampAsc(rows) ==
    { [i \in 1..Len(rows) |-> rows[p[i]]] : p \in
        { q \in Permutations(1..Len(rows)) :
            \A i, j \in 1..Len(rows) :
                i < j => rows[q[i]].timestamp <= rows[q[j]].timestamp } }

(* .order_by(Stock.timestamp.desc()): every arrangement of the rows with   *)
(* timestamps non-increasing; rows of equal timestamp come in an order the *)
(* engine chooses.                                                         *)
OrderByTimestampDesc(rows) ==
    { [i \in 1..Len(rows) |-> rows[p[i]]] : p \in
        { q \in Permutations(1..Len(rows)) :
            \A i, j \in 1..Len(rows) :
                i < j => rows[q[i]].timestamp >= rows[q[j]].timestamp } }

LimitBelowMin(rows, n) == SubSeq(rows, 1, Min2(n - NMin, Len(rows)))

(* .limit(n) *)
Limit(rows, n) == SubSeq(rows, 1, Min2(n, Len(rows)))

(* The result sets get_stocks_latest_n may return. *)
get_stocks_latest_n(rows, ticker, n) ==
    { Limit(q, n) : q \in OrderByTimestampDesc(get_stocks(rows, ticker)) }

----------------------------------------------------------------------------
(* main.py: analyze_ticker's computation over rows, oldest first, non-empty *)

NotReversed(s) == s

(* list(reversed(rows)) *)
OldestFirst(s) == Reversed(s)

(* ((prices[-1] - prices[0]) / prices[0] * 100) if prices[0] != 0 else     *)
(* None, then round(pct_change, 2); <<>> stands for None.                  *)
PctChange(prices) ==
    IF prices[1] # 0
    THEN <<Round2((Last(prices) - prices[1]) * 100, prices[1])>>
    ELSE <<>>

AnalysisNoRounding(ticker, rows) ==
    LET prices == [i \in 1..Len(rows) |-> rows[i].price]
    IN  [ticker |-> Upper(ticker),
         count |-> Len(prices),
         latest_price |-> Last(prices) \div 10,
         min_price |-> MinSeq(prices) \div 10,
         max_price |-> MaxSeq(prices) \div 10,
         avg_price |-> Round2Truncate(SumSeq(prices), 1000 * Len(prices)),
         pct_change |-> PctChange(prices)]

Analysis(ticker, rows) ==
    LET prices == [i \in 1..Len(rows) |-> rows[i].price]
    IN  [ticker |-> Upper(ticker),
         count |-> Len(prices),
         latest_price |-> RoundPrice(Last(prices)),
         min_price |-> RoundPrice(MinSeq(prices)),
         max_price |-> RoundPrice(MaxSeq(prices)),
         avg_price |-> Round2(SumSeq(prices), 1000 * Len(prices)),
         pct_change |-> PctChange(prices)]

HistoryItem(s) == [ticker |-> s.ticker, price |-> s.price, timestamp |-> s.timestamp]

(* (timestamp, price) of each row: chart_ticker's times and prices *)
Points(rows) == [i \in 1..Len(rows) |-> <<rows[i].timestamp, rows[i].price>>]

----------------------------------------------------------------------------
(* Requests *)

IdleReq ==
    [kind |-> "none", ticker |-> <<>>, n |-> 0, pc |-> "idle", db |-> 0,
     data |-> <<>>, new_stock |-> <<>>, rows |-> <<>>, fig |-> 0,
     buf |-> <<>>, status |-> 0, body |-> <<>>]

Active(r) == req[r].pc # "idle"

(* The registry after pyplot's gcf(): the current figure is the last one   *)
(* of the registry, made on the spot when the registry is empty.           *)
WithGcf ==
    IF figs = <<>> THEN <<[fig |-> figCount + 1, lines |-> <<>>]>> ELSE figs

Init ==
    /\ store = <<>>
    /\ now = 0
    /\ sessions = <<>>
    /\ figs = <<>>
    /\ figCount = 0
    /\ req = [r \in Reqs |-> IdleReq]

(* The table as an earlier run of the service may have left it: every row  *)
(* was written by add_stock, so ids count up and tickers are uppercase.    *)
StoredRows ==
    [ticker : {Upper(t) : t \in TickerInputs}, price : PriceInputs,
     timestamp : 0..MaxTime]

InitSeq ==
    /\ \E k \in 0..MaxInitRows :
         \E f \in [1..k -> StoredRows] :
            store = [i \in 1..k |->
                       [id |-> i, ticker |-> f[i].ticker,
                        price |-> f[i].price, timestamp |-> f[i].timestamp]]
    /\ now = MaxTime
    /\ sessions = <<>>
    /\ figs = <<>>
    /\ figCount = 0
    /\ req = [r \in Reqs |-> IdleReq]

(* The clock behind datetime.utcnow *)
Tick ==
    /\ now < MaxTime
    /\ now' = now + 1
    /\ UNCHANGED <<store, sessions, figs, figCount, req>>

(* A request arrives and get_db runs up to its yield: db = SessionLocal() *)
GetDb(r) ==
    /\ req[r].pc = "idle"
    /\ Len(sessions) < MaxSessions
    /\ sessions' = Append(sessions, [open |-> TRUE, closes |-> 0])
    /\ \E k \in {"stock", "history", "analysis", "chart"}, t \in TickerInputs :
         \E n \in (IF k \in {"analysis", "chart"} THEN NInputs ELSE {NDefault}) :
            req' = [req EXCEPT ![r] =
                      [IdleReq EXCEPT !.kind = k, !.ticker = t, !.n = n,
                                      !.pc = "handler",
                                      !.db = Len(sessions) + 1]]
    /\ UNCHANGED <<store, now, figs, figCount>>

ReleaseDbOnSuccess(r) ==
    /\ req[r].pc = "exit"
    /\ sessions' = IF req[r].status = 200
                   THEN [sessions EXCEPT ![req[r].db] =
                           [open |-> FALSE, closes |-> @.closes + 1]]
                   ELSE sessions
    /\ req' = [req EXCEPT ![r] = IdleReq]
    /\ UNCHANGED <<store, now, figs, figCount>>

(* get_db's finally: db.close(), after a return and after a raise alike *)
ReleaseDb(r) ==
    /\ req[r].pc = "exit"
    /\ sessions' = [sessions EXCEPT ![req[r].db] =
                      [open |-> FALSE, closes |-> @.closes + 1]]
    /\ req' = [req EXCEPT ![r] = IdleReq]
    /\ UNCHANGED <<store, now, figs, figCount>>

(* yf.Ticker(ticker).history(period="1d") *)
YfHistory(r) ==
    /\ req[r].kind = "stock"
    /\ req[r].pc = "handler"
    /\ \E d \in ProviderFrames :
         req' = [req EXCEPT ![r].data = d, ![r].pc = "fetched"]
    /\ UNCHANGED <<store, now, sessions, figs, figCount>>

(* fetch_stock after the provider answered *)
FetchStock(r) ==
    /\ req[r].pc = "fetched"
    /\ IF req[r].data = <<>>
       THEN /\ req' = [req EXCEPT ![r].status = 404, ![r].pc = "exit"]
            /\ UNCHANGED store
       ELSE LET price == Last(req[r].data)
                rows == add_stock(store, req[r].ticker, price, now)
            IN  /\ Len(store) < MaxStore
                /\ store' = rows
                /\ req' = [req EXCEPT
                             ![r].new_stock = <<Last(rows)>>,
                             ![r].status = 200,
                             ![r].body = <<[ticker |-> Upper(req[r].ticker),
                                            price |-> RoundPrice(price)]>>,
                             ![r].pc = "exit"]
    /\ UNCHANGED <<now, sessions, figs, figCount>>

(* stock_history *)
StockHistory(r) ==
    /\ req[r].kind = "history"
    /\ req[r].pc = "handler"
    /\ LET records == get_stocks(store, req[r].ticker)
       IN  req' = [req EXCEPT
                     ![r].rows = records,
                     ![r].status = IF records = <<>> THEN 404 ELSE 200,
                     ![r].body = [i \in 1..Len(records) |-> HistoryItem(records[i])],
                     ![r].pc = "exit"]
    /\ UNCHANGED <<store, now, sessions, figs, figCount>>

(* analyze_ticker *)
AnalyzeTicker(r) ==
    /\ req[r].kind = "analysis"
    /\ req[r].pc = "handler"
    /\ \E q \in get_stocks_latest_n(store, req[r].ticker, req[r].n) :
         LET rows == OldestFirst(q)
         IN  req' = [req EXCEPT
                       ![r].rows = rows,
                       ![r].status = IF rows = <<>> THEN 404 ELSE 200,
                       ![r].body = IF rows = <<>> THEN <<>>
                                   ELSE <<Analysis(req[r].ticker, rows)>>,
                       ![r].pc = "exit"]
    /\ UNCHANGED <<store, now, sessions, figs, figCount>>

(* chart_ticker up to plt.figure(figsize=(7, 4)): the new figure joins the *)
(* registry and becomes the current one.                                   *)
ChartTicker(r) ==
    /\ req[r].kind = "chart"
    /\ req[r].pc = "handler"
    /\ \E q \in get_stocks_latest_n(store, req[r].ticker, req[r].n) :
         LET rows == OldestFirst(q)
         IN  IF rows = <<>>
             THEN /\ req' = [req EXCEPT ![r].status = 404, ![r].pc = "exit"]
                  /\ UNCHANGED <<figs, figCount>>
             ELSE /\ figCount' = figCount + 1
                  /\ figs' = Append(figs, [fig |-> figCount + 1, lines |-> <<>>])
                  /\ req' = [req EXCEPT ![r].rows = rows,
                                        ![r].fig = figCount + 1,
                                        ![r].pc = "plot"]
    /\ UNCHANGED <<store, now, sessions>>

(* plt.plot(times, prices, ...) and the title, labels and grid: all drawn  *)
(* on pyplot's current figure.                                             *)
PltPlot(r) ==
    /\ req[r].pc = "plot"
    /\ figs' = [WithGcf EXCEPT ![Len(WithGcf)].lines = Append(@, Points(req[r].rows))]
    /\ figCount' = IF figs = <<>> THEN figCount + 1 ELSE figCount
    /\ req' = [req EXCEPT ![r].pc = "save"]
    /\ UNCHANGED <<store, now, sessions>>

(* plt.savefig(buf, format="png"): the current figure's content *)
PltSavefig(r) ==
    /\ req[r].pc = "save"
    /\ figs' = WithGcf
    /\ figCount' = IF figs = <<>> THEN figCount + 1 ELSE figCount
    /\ req' = [req EXCEPT ![r].buf = Last(WithGcf).lines, ![r].pc = "close"]
    /\ UNCHANGED <<store, now, sessions>>

(* plt.close() closes the current figure; then the StreamingResponse *)
PltClose(r) ==
    /\ req[r].pc = "close"
    /\ figs' = IF figs = <<>> THEN figs ELSE SubSeq(figs, 1, Len(figs) - 1)
    /\ req' = [req EXCEPT ![r].status = 200, ![r].body = req[r].buf,
                          ![r].pc = "exit"]
    /\ UNCHANGED <<store, now, sessions, figCount>>

(* An unexpected fault: the provider call, the commit, plt.plot or         *)
(* plt.savefig raises; nothing catches it, the response is a 500.          *)
Fault(r) ==
    /\ \/ req[r].kind = "stock" /\ req[r].pc = "handler"
       \/ req[r].pc = "fetched" /\ req[r].data # <<>>
       \/ req[r].pc \in {"plot", "save"}
    /\ req' = [req EXCEPT ![r].status = 500, ![r].pc = "exit"]
    /\ UNCHANGED <<store, now, sessions, figs, figCount>>

Next ==
    \/ Tick
    \/ \E r \in Reqs :
         \/ GetDb(r)
         \/ YfHistory(r)
         \/ FetchStock(r)
         \/ StockHistory(r)
         \/ AnalyzeTicker(r)
         \/ ChartTicker(r)
         \/ PltPlot(r)
         \/ PltSavefig(r)
         \/ PltClose(r)
         \/ Fault(r)
         \/ ReleaseDb(r)

Spec == Init /\ [][Next]_vars

(* One request at a time over a table that already holds rows. *)
NextSeq ==
    \/ Len(sessions) < MaxSeqRequests /\ GetDb(1)
    \/ YfHistory(1)
    \/ FetchStock(1)
    \/ StockHistory(1)
    \/ AnalyzeTicker(1)
    \/ ChartTicker(1)
    \/ PltPlot(1)
    \/ PltSavefig(1)
    \/ PltClose(1)
    \/ Fault(1)
    \/ ReleaseDb(1)

SpecSeq == InitSeq /\ [][NextSeq]_vars

----------------------------------------------------------------------------
(* Vocabulary of the properties *)

Abs(x) == IF x < 0 THEN -x ELSE x

SameLetter(c, d) == c = d \/ {c, d} = {"a", "A"} \/ {c, d} = {"b", "B"}

EqIgnoreCase(s, t) ==
    Len(s) = Len(t) /\ \A i \in 1..Len(s) : SameLetter(s[i], t[i])

IsUpper(s) == \A i \in 1..Len(s) : s[i] \notin {"a", "b"}

(* u is t in capitals *)
UpperOf(u, t) == EqIgnoreCase(u, t) /\ IsUpper(u)

(* c hundredths is a nearest hundredth of num/den (den > 0) *)
IsRounded(c, num, den) == 2 * Abs(c * den - num * 100) <= den

(* The stored rows of a ticker, whatever its casing *)
RowsOf(rows, t) == {i \in 1..Len(rows) : EqIgnoreCase(rows[i].ticker, t)}

Reads == {"history", "analysis", "chart"}

(* Request r leaves pc `from` in this step *)
Leaves(r, from) == req[r].pc = from /\ req'[r].pc # from

----------------------------------------------------------------------------
(* C1: a GET /stock/{t} whose provider call returned has one of two        *)
(* outcomes: no data gives 404 and leaves the store unchanged; data        *)
(* appends exactly one record (upper(t), latest close) and responds with   *)
(* upper(t) and that very price.  This is the claim as written.            *)
C1_FetchRespondsStoredPrice ==
    [][\A r \in Reqs :
         (Leaves(r, "fetched") /\ req'[r].status # 500) =>
            IF req[r].data = <<>>
            THEN req'[r].status = 404 /\ store' = store
            ELSE /\ req'[r].status = 200
                 /\ Len(store') = Len(store) + 1
                 /\ SubSeq(store', 1, Len(store)) = store
                 /\ UpperOf(Last(store').ticker, req[r].ticker)
                 /\ Last(store').price = Last(req[r].data)
                 /\ UpperOf(req'[r].body[1].ticker, req[r].ticker)
                 /\ req'[r].body[1].price * 10 = Last(req[r].data)]_vars

(* C1 as amended: the response carries the price rounded to 2 decimals;    *)
(* the stored price is the latest close itself; a raising provider call or *)
(* commit is a third outcome, a 500 with nothing stored.                   *)
C1_FetchOutcomes ==
    [][\A r \in Reqs :
         (req[r].kind = "stock" /\ req'[r].pc = "exit" /\ req[r].pc # "exit") =>
            \/ /\ req[r].pc = "fetched" /\ req[r].data = <<>>
               /\ req'[r].status = 404 /\ store' = store
            \/ /\ req[r].pc = "fetched" /\ req[r].data # <<>>
               /\ req'[r].status = 200
               /\ Len(store') = Len(store) + 1
               /\ SubSeq(store', 1, Len(store)) = store
               /\ UpperOf(Last(store').ticker, req[r].ticker)
               /\ Last(store').price = Last(req[r].data)
               /\ UpperOf(req'[r].body[1].ticker, req[r].ticker)
               /\ IsRounded(req'[r].body[1].price, Last(req[r].data), 1000)
            \/ /\ req[r].pc = "handler" \/ req[r].data # <<>>
               /\ req'[r].status = 500 /\ store' = store]_vars

(* A fetch answered 200 with a price that differs from the stored one *)
C1_Witness ==
    \E r \in Reqs :
        /\ req[r].kind = "stock" /\ req[r].pc = "exit" /\ req[r].status = 200
        /\ req[r].new_stock[1].price # req[r].body[1].price * 10
        /\ \E i \in 1..Len(store) : store[i] = req[r].new_stock[1]

(* C2: the store is append-only under every interleaving: a step keeps     *)
(* every row as it is, only a /stock request adds one, and the row a fetch *)
(* has written stays in the store while other requests run.                *)
C2_AppendOnly ==
    [][/\ Len(store') >= Len(store)
       /\ \A i \in 1..Len(store) : store'[i] = store[i]
       /\ store' # store =>
            /\ Len(store') = Len(store) + 1
            /\ \A i \in 1..Len(store) : store[i].id # Last(store').id
            /\ \E r \in Reqs : req[r].kind = "stock" /\ req'[r] # req[r]
       /\ \A r \in Reqs :
            (req[r].kind \in Reads /\ req'[r] # req[r]) => store' = store
       /\ \A r \in Reqs :
            req'[r].new_stock # <<>> =>
               \E i \in 1..Len(store') : store'[i] = req'[r].new_stock[1]]_vars

(* Two concurrent fetches of one ticker, both answered, both rows stored *)
C2_Witness ==
    \E r1, r2 \in Reqs :
        /\ r1 # r2
        /\ req[r1].status = 200 /\ req[r2].status = 200
        /\ req[r1].kind = "stock" /\ req[r2].kind = "stock"
        /\ EqIgnoreCase(req[r1].ticker, req[r2].ticker)
        /\ req[r1].new_stock # req[r2].new_stock
        /\ \A r \in {r1, r2} :
             \E i \in 1..Len(store) : store[i] = req[r].new_stock[1]

(* C3: /history, /analysis and /chart answer 404 exactly when the store    *)
(* holds no record of the ticker, for every allowed n.                     *)
C3_NotFoundIffNoRecords ==
    [][\A r \in Reqs :
         req[r].kind \in Reads =>
            /\ (Leaves(r, "handler") /\ RowsOf(store, req[r].ticker) = {})
                  => req'[r].status = 404
            /\ (req'[r].status = 404 /\ req[r].status # 404)
                  => RowsOf(store, req[r].ticker) = {}]_vars

(* A read answered 404 for a ticker without rows while another has rows *)
C3_Witness ==
    \E r \in Reqs :
        /\ req[r].kind \in Reads /\ req[r].status = 404
        /\ req[r].n \in {NDefault, NMax}
        /\ RowsOf(store, req[r].ticker) = {}
        /\ store # <<>>

(* C4: ticker matching is case-insensitive end to end: a fetch stores its  *)
(* record under the ticker in capitals, /history returns exactly the       *)
(* stored records whose ticker equals the queried one up to case, and the  *)
(* /analysis and /chart windows hold only such records.                    *)
C4_CaseInsensitive ==
    [][/\ \A i \in 1..Len(store') : IsUpper(store'[i].ticker)
       /\ \A r \in Reqs :
            (Leaves(r, "fetched") /\ req'[r].status = 200) =>
               UpperOf(Last(store').ticker, req[r].ticker)
       /\ \A r \in Reqs :
            (req[r].kind = "history" /\ Leaves(r, "handler")) =>
               /\ Len(req'[r].body) = Cardinality(RowsOf(store, req[r].ticker))
               /\ \A i \in 1..Len(store) :
                    i \in RowsOf(store, req[r].ticker) <=>
                       \E j \in 1..Len(req'[r].body) :
                          /\ req'[r].rows[j] = store[i]
                          /\ req'[r].body[j] = HistoryItem(store[i])
       /\ \A r \in Reqs :
            (req[r].kind \in {"analysis", "chart"} /\ Leaves(r, "handler")) =>
               /\ \A j \in 1..Len(req'[r].rows) :
                    \E i \in RowsOf(store, req[r].ticker) :
                       req'[r].rows[j] = store[i]
               /\ RowsOf(store, req[r].ticker) # {} => req'[r].rows # <<>>]_vars

(* A record fetched as "ab" is in the answer to /history/AB *)
C4_Witness ==
    \E r1, r2 \in Reqs :
        /\ req[r1].kind = "stock" /\ req[r1].status = 200
        /\ req[r1].ticker = <<"a", "b">>
        /\ req[r2].kind = "history" /\ req[r2].status = 200
        /\ req[r2].ticker = <<"A", "B">>
        /\ \E j \in 1..Len(req[r2].rows) : req[r2].rows[j] = req[r1].new_stock[1]

(* C5: get_stocks_latest_n(ticker, n) returns min(n, stored records of the *)
(* ticker) records, all of the ticker, each stored row at most once,       *)
(* newest first, and no row left out is later than a row returned.  The    *)
(* handlers hold the result reversed, so rows is read from its end.        *)
C5_LatestN ==
    [][\A r \in Reqs :
         (req[r].kind \in {"analysis", "chart"} /\ Leaves(r, "handler")) =>
            LET rows == req'[r].rows
                mine == RowsOf(store, req[r].ticker)
                pick == {i \in mine : \E j \in 1..Len(rows) : rows[j] = store[i]}
            IN  /\ Len(rows) = Min2(req[r].n, Cardinality(mine))
                /\ Cardinality(pick) = Len(rows)
                /\ \A j \in 1..Len(rows) : \E i \in pick : rows[j] = store[i]
                /\ \A j, k \in 1..Len(rows) :
                     j < k => rows[j].timestamp <= rows[k].timestamp
                /\ \A i \in mine \ pick : \A j \in 1..Len(rows) :
                     store[i].timestamp <= rows[j].timestamp]_vars

(* An analysis window cut to n rows, some of them newer than a row left out *)
C5_Witness ==
    \E r \in Reqs :
        /\ req[r].kind = "analysis" /\ req[r].status = 200
        /\ Len(req[r].rows) = req[r].n
        /\ Cardinality(RowsOf(store, req[r].ticker)) > req[r].n
        /\ \E i \in RowsOf(store, req[r].ticker) :
             store[i].timestamp < req[r].rows[1].timestamp

(* The window's rows that may count as its oldest and its newest *)
Earliest(rows) == {i \in 1..Len(rows) :
                     \A j \in 1..Len(rows) : rows[i].timestamp <= rows[j].timestamp}

Latest(rows) == {i \in 1..Len(rows) :
                   \A j \in 1..Len(rows) : rows[i].timestamp >= rows[j].timestamp}

(* C6 as written: pct_change is null iff the oldest price of the window is *)
(* 0, and is otherwise exactly (newest - oldest) / oldest * 100.           *)
C6_PctChangeExact ==
    \A r \in Reqs :
        (req[r].kind = "analysis" /\ req[r].status = 200) =>
           LET rows == req[r].rows
               pct == req[r].body[1].pct_change
           IN  \E o \in Earliest(rows), w \in Latest(rows) :
                  /\ (Len(rows) > 1 => o # w)
                  /\ pct = <<>> <=> rows[o].price = 0
                  /\ pct # <<>> =>
                       pct[1] * rows[o].price =
                          (rows[w].price - rows[o].price) * 100 * 100

(* C6 as amended: the value returned is that quotient rounded to 2         *)
(* decimals.                                                               *)
C6_PctChangeRounded ==
    \A r \in Reqs :
        (req[r].kind = "analysis" /\ req[r].status = 200) =>
           LET rows == req[r].rows
               pct == req[r].body[1].pct_change
           IN  \E o \in Earliest(rows), w \in Latest(rows) :
                  /\ (Len(rows) > 1 => o # w)
                  /\ pct = <<>> <=> rows[o].price = 0
                  /\ pct # <<>> =>
                       IsRounded(pct[1],
                                 (rows[w].price - rows[o].price) * 100,
                                 rows[o].price)

(* A window that rises from an older to a newer price, the quotient inexact *)
C6_Witness ==
    \E r \in Reqs :
        /\ req[r].kind = "analysis" /\ req[r].status = 200
        /\ Len(req[r].rows) >= 2
        /\ req[r].rows[1].timestamp < Last(req[r].rows).timestamp
        /\ 0 < req[r].rows[1].price
        /\ req[r].rows[1].price < Last(req[r].rows).price
        /\ req[r].body[1].pct_change # <<>>
        /\ req[r].body[1].pct_change[1] * req[r].rows[1].price #
              (Last(req[r].rows).price - req[r].rows[1].price) * 100 * 100

(* The spec's example window, oldest first, in thousandths *)
ExampleRows ==
    << [id |-> 1, ticker |-> <<"A", "B">>, price |-> 100000, timestamp |-> 1],
       [id |-> 2, ticker |-> <<"A", "B">>, price |-> 110000, timestamp |-> 2],
       [id |-> 3, ticker |-> <<"A", "B">>, price |-> 90000, timestamp |-> 3],
       [id |-> 4, ticker |-> <<"A", "B">>, price |-> 120000, timestamp |-> 4] >>

ExampleHolds ==
    LET a == Analysis(<<"a", "b">>, ExampleRows)
    IN  /\ a.count = 4 /\ a.latest_price = 12000 /\ a.min_price = 9000
        /\ a.max_price = 12000 /\ a.avg_price = 10500 /\ a.pct_change = <<2000>>

(* C7 as written: count is the window length, latest_price the newest      *)
(* price, min_price <= every element <= max_price with both of them        *)
(* elements of the window, and min_price <= avg_price <= max_price.        *)
C7_StatsOfWindow ==
    \A r \in Reqs :
        (req[r].kind = "analysis" /\ req[r].status = 200) =>
           LET rows == req[r].rows
               a == req[r].body[1]
           IN  /\ a.count = Len(rows)
               /\ \E w \in Latest(rows) : a.latest_price * 10 = rows[w].price
               /\ \A i \in 1..Len(rows) :
                    a.min_price * 10 <= rows[i].price /\ rows[i].price <= a.max_price * 10
               /\ \E i \in 1..Len(rows) : a.min_price * 10 = rows[i].price
               /\ \E i \in 1..Len(rows) : a.max_price * 10 = rows[i].price
               /\ a.min_price <= a.avg_price /\ a.avg_price <= a.max_price

(* C7 as amended: the same of the values rounded to 2 decimals: min_price  *)
(* and max_price are the rounded least and greatest element, latest_price  *)
(* the rounded newest one, avg_price the rounded mean, and                 *)
(* min_price <= avg_price <= max_price; the example window gives the       *)
(* example's figures.                                                      *)
C7_StatsRounded ==
    /\ ExampleHolds
    /\ \A r \in Reqs :
        (req[r].kind = "analysis" /\ req[r].status = 200) =>
           LET rows == req[r].rows
               a == req[r].body[1]
           IN  /\ a.count = Len(rows)
               /\ \E w \in Latest(rows) : IsRounded(a.latest_price, rows[w].price, 1000)
               /\ \E i \in 1..Len(rows) :
                    /\ \A j \in 1..Len(rows) : rows[i].price <= rows[j].price
                    /\ IsRounded(a.min_price, rows[i].price, 1000)
               /\ \E i \in 1..Len(rows) :
                    /\ \A j \in 1..Len(rows) : rows[i].price >= rows[j].price
                    /\ IsRounded(a.max_price, rows[i].price, 1000)
               /\ IsRounded(a.avg_price,
                            SumSeq([i \in 1..Len(rows) |-> rows[i].price]),
                            1000 * Len(rows))
               /\ a.min_price <= a.avg_price /\ a.avg_price <= a.max_price

(* A window whose least element lies below the min_price returned and      *)
(* whose newest element is neither its least nor its greatest              *)
C7_Witness ==
    \E r \in Reqs :
        /\ req[r].kind = "analysis" /\ req[r].status = 200
        /\ Len(req[r].rows) = 3
        /\ \E i \in 1..3 : req[r].rows[i].price > req[r].body[1].max_price * 10
        /\ req[r].body[1].min_price < req[r].body[1].latest_price
        /\ req[r].body[1].latest_price < req[r].body[1].max_price

(* C8: every session is used by the one request that acquired it, is open  *)
(* while that request runs, and is closed exactly once when the request    *)
(* has ended, however it ended.                                            *)
C8_SessionScoped ==
    /\ \A r \in Reqs : Active(r) => req[r].db \in 1..Len(sessions)
    /\ \A s \in 1..Len(sessions) :
         LET users == {r \in Reqs : Active(r) /\ req[r].db = s}
         IN  /\ Cardinality(users) <= 1
             /\ users # {} => sessions[s].open /\ sessions[s].closes = 0
             /\ users = {} => ~sessions[s].open /\ sessions[s].closes = 1

(* A /chart request died of a fault (its figure is still registered), and  *)
(* its session was closed once                                             *)
C8_Witness ==
    /\ figs # <<>>
    /\ \A r \in Reqs : ~Active(r)
    /\ Len(sessions) >= 2
    /\ \A s \in 1..Len(sessions) : ~sessions[s].open /\ sessions[s].closes = 1

(* C9: every figure of pyplot's registry belongs to a /chart request that  *)
(* is still between its plt.figure() and its plt.close(): no request ends  *)
(* with the figure it created still open.                                  *)
C9_NoFigureLeak ==
    \A i \in 1..Len(figs) :
        \E r \in Reqs :
            /\ req[r].pc \in {"plot", "save", "close"}
            /\ req[r].fig = figs[i].fig

(* C10: the image a /chart request returns shows one line, the points of   *)
(* its own window, oldest first.                                           *)
C10_ChartShowsOwnWindow ==
    \A r \in Reqs :
        (req[r].kind = "chart" /\ req[r].status = 200) =>
           req[r].body = <<Points(req[r].rows)>>

====
